---- MODULE Spec2Model ----
(***************************************************************************)
(* Model of the browser frontend of the RAG demo: the session provider     *)
(* (frontend/js/auth.js, first half), the authenticated request gateway    *)
(* (sendMessage, getFiles, uploadFile, deleteFile) and the chat and admin  *)
(* feature handlers.                                                       *)
(*                                                                         *)
(* JavaScript runs one task at a time: an async function runs without      *)
(* interruption up to its next await of an external promise (an identity   *)
(* service call or a fetch) and is resumed when that promise settles.      *)
(* Every action below is one such uninterrupted run: the call of an        *)
(* operation up to its first external await, or the settling of an         *)
(* external promise together with everything the code does until the next  *)
(* external await.  The identity library, the backend and the user are     *)
(* the environment; their answers are chosen nondeterministically.         *)
(*                                                                         *)
(* Values: a JavaScript value that may be null or undefined is a sequence  *)
(* of length at most one (None, Some(v)).  E-mail addresses and the admin  *)
(* allow-list are sequences of characters; messages are strings.           *)
(***************************************************************************)
EXTENDS Naturals, Sequences, FiniteSets, Bags

VARIABLES
  libLoaded,        \* typeof supabase !== 'undefined'
  config,           \* window.SUPABASE_URL, SUPABASE_ANON_KEY, ADMIN_EMAILS
  supabaseClient,   \* auth.js:12, 0 is null, otherwise the handle
  clientsCreated,   \* number of supabase.createClient calls that returned
  session,          \* the identity service's session for this browser
  issued,           \* number of access tokens the identity service issued
  authLast,         \* history: "init" until a login() has succeeded, then
                    \* the last thing that happened to the session
  tasks,            \* the bag of invocations in progress
  finished,         \* history: the invocation that ended in the last step
  calls,            \* number of invocations started
  location,         \* window.location.href
  chat,             \* the chat page: message list, input and submit button
  admin             \* the admin page: upload button, alert, file table, filter

vars == <<libLoaded, config, supabaseClient, clientsCreated, session, issued,
          authLast, tasks, finished, calls, location, chat, admin>>

----------------------------------------------------------------------------
(* Bounds of the model *)

MaxTasks == 2
MaxCalls == 2
MaxSessionCalls == 3
MaxTokens == 2
MaxListLen == 3

----------------------------------------------------------------------------
(* JavaScript values *)

None == <<>>
Some(v) == <<v>>

\* outcome of a call: still running, returned a value, or threw an Error
Pending == [st |-> "pending", val |-> None, msg |-> ""]
Returned(v) == [st |-> "returned", val |-> Some(v), msg |-> ""]
ReturnedVoid == [st |-> "returned", val |-> None, msg |-> ""]
Threw(m) == [st |-> "threw", val |-> None, msg |-> m]

\* the access token string of the n-th issued session; never the empty string
AccessToken(n) == <<"jwt", n>>
EmptyString == <<>>

\* String.prototype.trim() on a sequence of characters
RECURSIVE Trim(_)
Trim(s) ==
  IF s = <<>> THEN s
  ELSE IF Head(s) = " " THEN Trim(Tail(s))
  ELSE IF s[Len(s)] = " " THEN Trim(SubSeq(s, 1, Len(s) - 1))
  ELSE s

\* !token for a value that is null or a string
Falsy(v) == v = None \/ v[1] = EmptyString

----------------------------------------------------------------------------
(* Messages of the code (the Japanese texts of the source, in English) *)

MsgClientNotInitialized == "Supabase client is not initialized"  \* auth.js:50
MsgNoToken == "could not get the auth token"                     \* auth.js:133
MsgSendFailed == "failed to send the message"                    \* part_001:24
MsgListFailed == "failed to get the file list"                   \* auth.js:170
MsgUploadFailed == "failed to upload the file"                   \* auth.js:197
MsgDeleteFailed == "failed to delete the file"                   \* auth.js:221
MsgUploaded == "file uploaded"                                   \* auth.js:360
MsgDeleted == "file deleted"                                     \* auth.js:294
LabelUpload == "upload"                                          \* auth.js:367
LabelUploading == "uploading..."                                 \* auth.js:356
LabelSend == "send"                                              \* part_001:158
LabelSending == "sending..."                                     \* part_001:139
LoginPage == "/login.html"                                       \* auth.js:108

\* messages of errors raised by the runtime and the libraries, not by this code
MsgUrlRequired == "supabaseUrl is required."
MsgKeyRequired == "supabaseKey is required."
MsgRejected == "identity call rejected"
MsgSyntaxError == "Unexpected token < in JSON at position 0"
MsgTypeErrorNull == "Cannot read properties of null (reading 'detail')"
MsgFailedToFetch == "Failed to fetch"
MsgFilesUndefined == "Cannot read properties of undefined (reading 'length')"

----------------------------------------------------------------------------
(* The program state that synchronous code reads and writes, as one record, *)
(* so that a handler's run is a function from records to records.           *)

Prog == [supabaseClient |-> supabaseClient, clientsCreated |-> clientsCreated,
         location |-> location, chat |-> chat, admin |-> admin]

Apply(P) ==
  /\ supabaseClient' = P.supabaseClient
  /\ clientsCreated' = P.clientsCreated
  /\ location' = P.location
  /\ chat' = P.chat
  /\ admin' = P.admin

\* an invocation: the handler or operation called (kind), the Gateway
\* operation it is inside of (op), the external promise it awaits (pc), its
\* argument, the user's answer to a confirm() dialog, whether its last token
\* lookup gave a token (lookup), the session history when its identity call
\* settled (seen), the answer of the identity client to a Session Provider
\* operation (answer) and the last response of the backend to a Gateway
\* operation (resp) it received, its outcome, the order of
\* what it did (log), the requests it issued (reqs) and the alerts and error
\* messages it rendered (shown)
NoTask == [kind |-> "none", stage |-> "none", op |-> "none", pc |-> "idle",
           arg |-> None, oparg |-> None, confirm |-> FALSE,
           lookup |-> "none", seen |-> "none", answer |-> None,
           resp |-> None, out |-> Pending, log |-> <<>>, reqs |-> <<>>,
           shown |-> <<>>]

NewTask(kind, arg) == [NoTask EXCEPT !.kind = kind, !.arg = arg, !.pc = "call"]

Done(t, out) == [t EXCEPT !.pc = "done", !.out = out]

Await(t, pc) == [t EXCEPT !.pc = pc, !.log = Append(t.log, pc)]

\* invocation t has rendered message with showAlert or displayError
Shown(t, type, message) ==
  [t EXCEPT !.shown = Append(@, [type |-> type, text |-> message])]

----------------------------------------------------------------------------
(* Session provider: auth.js:1-140 *)

\* supabase.createClient(SUPABASE_URL, SUPABASE_ANON_KEY): the library throws
\* when the URL or the key is empty (auth.js:9-10 default both to '')
createClient(P) ==
  IF ~config.url THEN [P |-> P, out |-> Threw(MsgUrlRequired)]
  ELSE IF ~config.key THEN [P |-> P, out |-> Threw(MsgKeyRequired)]
  ELSE [P |-> [P EXCEPT !.clientsCreated = @ + 1],
        out |-> Returned(P.clientsCreated + 1)]

\* initSupabase() that creates a client whenever it is called
initSupabaseAnew(P) ==
  IF ~libLoaded THEN [P |-> P, out |-> Returned(0)]
  ELSE LET c == createClient(P)
       IN  IF c.out.st = "threw" THEN c
           ELSE [P |-> [c.P EXCEPT !.supabaseClient = c.out.val[1]],
                 out |-> c.out]

\* initSupabase(): the handle, 0 for null, or the error createClient threw
initSupabase(P) ==
  IF ~libLoaded THEN [P |-> P, out |-> Returned(0)]
  ELSE IF P.supabaseClient = 0
       THEN LET c == createClient(P)
            IN  IF c.out.st = "threw" THEN c
                ELSE [P |-> [c.P EXCEPT !.supabaseClient = c.out.val[1]],
                      out |-> c.out]
       ELSE [P |-> P, out |-> Returned(P.supabaseClient)]

\* getCurrentUser() from line 36 on, given how client.auth.getUser() settled
getCurrentUser(q) ==
  IF q.kind = "rejected" THEN Threw(q.msg)
  ELSE IF q.kind = "error" THEN Returned(None)
  ELSE Returned(q.user)

\* login() that replaces the backend's error message by its own
loginOwnMessage(q) ==
  IF q.kind = "rejected" THEN Threw(q.msg)
  ELSE IF q.kind = "error" THEN Threw(MsgClientNotInitialized)
  ELSE Returned(q.data)

\* login() from line 53 on, given how signInWithPassword settled
login(q) ==
  IF q.kind = "rejected" THEN Threw(q.msg)
  ELSE IF q.kind = "error" THEN Threw(q.msg)
  ELSE Returned(q.data)

\* logout() that logs the error of signOut and goes on
logoutIgnoringError(q) ==
  IF q.kind = "rejected" THEN Threw(q.msg) ELSE ReturnedVoid

\* logout() from line 72 on, given how signOut settled
logout(q) ==
  IF q.kind = "rejected" THEN Threw(q.msg)
  ELSE IF q.kind = "error" THEN Threw(q.msg)
  ELSE ReturnedVoid

\* getAuthToken() that falls back on the token it saw last when the session
\* query gives none
getAuthTokenRemembering(q) ==
  IF q.kind = "rejected" THEN Threw(q.msg)
  ELSE IF q.kind = "error" \/ q.session = None
       THEN Returned(IF session.token = 0 THEN None
                     ELSE Some(AccessToken(session.token)))
       ELSE Returned(Some(q.session[1].access_token))

\* getAuthToken() from line 86 on, given how getSession settled
getAuthToken(q) ==
  IF q.kind = "rejected" THEN Threw(q.msg)
  ELSE IF q.kind = "error" \/ q.session = None THEN Returned(None)
  ELSE Returned(Some(q.session[1].access_token))

\* checkAuth(), given the outcome of getCurrentUser()
checkAuth(u) ==
  IF u.st = "threw" THEN u ELSE Returned(u.val[1] # None)

\* requireAuth(), given the outcome of checkAuth()
requireAuth(P, a) ==
  IF a.st = "threw" THEN [P |-> P, out |-> a]
  ELSE IF ~a.val[1]
       THEN [P |-> [P EXCEPT !.location = LoginPage], out |-> Returned(FALSE)]
       ELSE [P |-> P, out |-> Returned(TRUE)]

\* String.prototype.split(',') on a sequence of characters
RECURSIVE Split(_)
Split(s) ==
  IF \A i \in 1..Len(s) : s[i] # ","
  THEN <<s>>
  ELSE LET k == CHOOSE i \in 1..Len(s) :
                  s[i] = "," /\ \A j \in 1..(i - 1) : s[j] # ","
       IN  <<SubSeq(s, 1, k - 1)>> \o Split(SubSeq(s, k + 1, Len(s)))

\* a membership test that trims both sides first
IncludesTrimmed(list, v) ==
  v # None /\ \E i \in 1..Len(list) : Trim(list[i]) = Trim(v[1])

\* Array.prototype.includes for a value that may be undefined
Includes(list, v) ==
  v # None /\ \E i \in 1..Len(list) : list[i] = v[1]

\* window.ADMIN_EMAILS ? window.ADMIN_EMAILS.split(',') : []
adminEmails ==
  IF config.adminEmails = None \/ config.adminEmails[1] = EmptyString
  THEN <<>>
  ELSE Split(config.adminEmails[1])

\* isAdmin(), given the outcome of getCurrentUser()
isAdmin(u) ==
  IF u.st = "threw" THEN u
  ELSE IF u.val[1] = None THEN Returned(FALSE)
  ELSE Returned(Includes(adminEmails, u.val[1][1].email))

\* getAuthHeaders() without the check of the token
getAuthHeadersUnchecked(tk) ==
  IF tk.st = "threw" THEN tk
  ELSE Returned([Authorization |->
                   <<"Bearer", IF tk.val[1] = None THEN "null"
                               ELSE tk.val[1][1]>>,
                 ContentType |-> Some("application/json")])

\* getAuthHeaders(), given the outcome of getAuthToken()
getAuthHeaders(tk) ==
  IF tk.st = "threw" THEN tk
  ELSE IF Falsy(tk.val[1]) THEN Threw(MsgNoToken)
  ELSE Returned([Authorization |-> <<"Bearer", tk.val[1][1]>>,
                 ContentType |-> Some("application/json")])

----------------------------------------------------------------------------
(* The identity service and library (environment): how each call of the    *)
(* client can settle in the current session state.  An answer is resolved  *)
(* with a result (ok), resolved with an error result (error) or rejected.  *)

NoSession == [state |-> "none", token |-> 0, email |-> None]

Answer(kind, msg, effect) ==
  [kind |-> kind, msg |-> msg, effect |-> effect, user |-> None,
   session |-> None, data |-> None]

SessionObject(n, email) ==
  [access_token |-> AccessToken(n), user |-> [email |-> email]]

AuthErrorMessages == {"Invalid login credentials", "Email not confirmed"}

Rejections == {Answer("rejected", MsgRejected, "none")}

\* client.auth.getUser(): asks the identity server who the session belongs to
GetUserAnswers ==
  Rejections \cup {Answer("error", "Auth session missing!", "none")} \cup
  CASE session.state = "valid" ->
         {[Answer("ok", "", "none") EXCEPT
             !.user = Some([email |-> session.email])]}
    [] session.state = "expired" ->
         IF issued < MaxTokens
         THEN {[Answer("ok", "", "refresh") EXCEPT
                  !.user = Some([email |-> session.email])]}
         ELSE {}
    [] OTHER -> {Answer("ok", "", "none")}

\* client.auth.getSession(): the stored session, refreshed first when expired
GetSessionAnswers ==
  Rejections \cup
  CASE session.state = "valid" ->
         {[Answer("ok", "", "none") EXCEPT
             !.session = Some(SessionObject(session.token, session.email))]}
    [] session.state = "expired" ->
         {Answer("error", "Failed to refresh the session", "none")} \cup
         IF issued < MaxTokens
         THEN {[Answer("ok", "", "refresh") EXCEPT
                  !.session = Some(SessionObject(issued + 1, session.email))]}
         ELSE {}
    [] OTHER -> {Answer("ok", "", "none")}

\* client.auth.signInWithPassword({email, password})
SignInAnswers(email) ==
  Rejections \cup {Answer("error", m, "none") : m \in AuthErrorMessages} \cup
  IF issued < MaxTokens
  THEN {[Answer("ok", "", "signin") EXCEPT
           !.data = Some(SessionObject(issued + 1, Some(email)))]}
  ELSE {}

\* client.auth.signOut()
SignOutAnswers ==
  Rejections \cup {Answer("error", "Sign out failed", "none"),
                   Answer("ok", "", "signout")}

\* what an answer does to the identity service's session
SessionAfter(q, email) ==
  CASE q.effect = "refresh" -> [session EXCEPT !.state = "valid",
                                               !.token = issued + 1]
    [] q.effect = "signin" -> [state |-> "valid", token |-> issued + 1,
                               email |-> Some(email)]
    [] q.effect = "signout" -> NoSession
    [] OTHER -> session

IssuedAfter(q) == IF q.effect \in {"refresh", "signin"} THEN issued + 1 ELSE issued

----------------------------------------------------------------------------
(* The backend (environment): how a fetch can settle *)

Response(net, ok, json, hasDetail, detail, data) ==
  [net |-> net, ok |-> ok, json |-> json, hasDetail |-> hasDetail,
   detail |-> detail, data |-> data]

\* the detail strings a backend error body can carry
Details == {"", "Unauthorized", "Quota exceeded"}

\* fetch() rejected: no response at all
NetworkFailure == Response("failed", FALSE, "none", FALSE, "", None)

\* non-2xx responses: a JSON object with or without detail, the JSON value
\* null, or a body that is not JSON (an HTML error page)
ErrorResponses ==
  {Response("ok", FALSE, "object", TRUE, d, None) : d \in Details} \cup
  {Response("ok", FALSE, "object", FALSE, "", None),
   Response("ok", FALSE, "null", FALSE, "", None),
   Response("ok", FALSE, "unparseable", FALSE, "", None)}

Source1 == [file_name |-> "guide.pdf", similarity |-> 8234]
Source2 == [file_name |-> "faq.md", similarity |-> 9166]

\* the files the backend holds
BackendFiles ==
  <<[id |-> "f1", file_name |-> "guide.pdf", status |-> "indexed"],
    [id |-> "f2", file_name |-> "faq.md", status |-> "uploaded"]>>

FilesWithStatus(query) ==
  SelectSeq(BackendFiles, LAMBDA f : query = None \/ f.status = query[1])

\* 2xx responses to a request, by endpoint (spec.md section 6 gives the shapes)
SuccessResponses(req) ==
  {Response("ok", TRUE, "unparseable", FALSE, "", None)} \cup
  CASE req.path = "/chat" ->
         {Response("ok", TRUE, "object", FALSE, "",
                   Some([answer |-> "the answer", sources |-> src])) :
            src \in {None, Some(<<>>), Some(<<Source1>>),
                     Some(<<Source1, Source2>>)}}
    [] req.path = "/admin/files" ->
         {Response("ok", TRUE, "object", FALSE, "",
                   Some([files |-> FilesWithStatus(req.query)]))}
    [] req.path = "/admin/upload" ->
         {Response("ok", TRUE, "object", FALSE, "",
                   Some([id |-> "f3", file_name |-> req.body.value]))}
    [] OTHER ->
         {Response("ok", TRUE, "object", FALSE, "", Some([deleted |-> TRUE]))}

Responses(req) == {NetworkFailure} \cup ErrorResponses \cup SuccessResponses(req)

----------------------------------------------------------------------------
(* Authenticated request gateway: part_001:13-28, auth.js:155-225 *)

GatewayOps == {"sendMessage", "getFiles", "uploadFile", "deleteFile"}

Request(method, path, query, headers, body) ==
  [method |-> method, path |-> path, query |-> query, headers |-> headers,
   body |-> body]

\* the request each operation hands to fetch, given the headers
sendMessageRequest(message, headers) ==
  Request("POST", "/chat", None, headers,
          [type |-> "json", field |-> "message", value |-> message])

\* getFiles: if (status) url += `?status=${status}`
getFilesRequest(status, headers) ==
  Request("GET", "/admin/files",
          IF status = None \/ status[1] = "" THEN None ELSE status,
          headers, [type |-> "none", field |-> "", value |-> ""])

\* uploadFile that hands all the headers of getAuthHeaders() to fetch
uploadFileRequestAllHeaders(file, headers) ==
  Request("POST", "/admin/upload", None, headers,
          [type |-> "form", field |-> "file", value |-> file])

\* uploadFile: only Authorization is sent, the body is multipart form data
uploadFileRequest(file, headers) ==
  Request("POST", "/admin/upload", None,
          [Authorization |-> headers.Authorization, ContentType |-> None],
          [type |-> "form", field |-> "file", value |-> file])

deleteFileRequest(fileId, headers) ==
  Request("POST", "/admin/delete", None, headers,
          [type |-> "json", field |-> "file_id", value |-> fileId])

RequestOf(op, arg, headers) ==
  CASE op = "sendMessage" -> sendMessageRequest(arg, headers)
    [] op = "getFiles" -> getFilesRequest(arg, headers)
    [] op = "uploadFile" -> uploadFileRequest(arg, headers)
    [] OTHER -> deleteFileRequest(arg, headers)

\* if (!response.ok) { const error = await response.json();
\*                     throw new Error(error.detail || fallback) }
\* return await response.json()
\* response.json() rejects with a SyntaxError when the body is not JSON, and
\* error.detail throws a TypeError when the body is the JSON value null
responseResult(r, fallback) ==
  IF r.net = "failed" THEN Threw(MsgFailedToFetch)
  ELSE IF r.json = "unparseable" THEN Threw(MsgSyntaxError)
  ELSE IF ~r.ok
       THEN IF r.json = "null" THEN Threw(MsgTypeErrorNull)
            ELSE IF r.hasDetail /\ r.detail # "" THEN Threw(r.detail)
            ELSE Threw(fallback)
       ELSE Returned(r.data[1])

\* deleteFile that throws its fixed message whatever the body says
deleteFileIgnoringDetail(r) ==
  IF r.net = "ok" /\ ~r.ok /\ r.json = "object" THEN Threw(MsgDeleteFailed)
  ELSE responseResult(r, MsgDeleteFailed)

sendMessage(r) == responseResult(r, MsgSendFailed)
getFiles(r) == responseResult(r, MsgListFailed)
uploadFile(r) == responseResult(r, MsgUploadFailed)
deleteFile(r) == responseResult(r, MsgDeleteFailed)

ResultOf(op, r) ==
  CASE op = "sendMessage" -> sendMessage(r)
    [] op = "getFiles" -> getFiles(r)
    [] op = "uploadFile" -> uploadFile(r)
    [] OTHER -> deleteFile(r)

----------------------------------------------------------------------------
(* Page rendering: part_001:33-114, auth.js:230-328.  The elements the     *)
(* handlers are registered for and render into are present on their pages. *)

\* error.message || fallback
OrElse(m, fallback) == IF m = "" THEN fallback ELSE m

\* displayMessage(message, isUser)
displayMessage(P, message, isUser) ==
  [P EXCEPT !.chat.messages =
     Append(@, [cls |-> IF isUser THEN "user" ELSE "assistant",
                text |-> Some(message), items |-> <<>>])]

\* (source.similarity * 100).toFixed(1), in tenths of a percent, for a
\* similarity given in ten-thousandths
PercentTenths(similarity) == (similarity + 5) \div 10

\* displaySources(sources): one list item per source
displaySources(P, sources) ==
  IF sources = None \/ Len(sources[1]) = 0 THEN P
  ELSE [P EXCEPT !.chat.messages =
          Append(@, [cls |-> "sources", text |-> None,
                     items |-> [i \in 1..Len(sources[1]) |->
                                  [file_name |-> sources[1][i].file_name,
                                   percent |-> PercentTenths(
                                                 sources[1][i].similarity)]]])]

\* displayError(message)
displayError(P, message) ==
  [P EXCEPT !.chat.messages =
     Append(@, [cls |-> "error", text |-> Some(message), items |-> <<>>])]

\* showAlert(message, type): shows the alert and starts a 5 s timer that
\* hides the alert element
showAlert(P, message, type) ==
  [P EXCEPT !.admin.alert = [display |-> TRUE, cls |-> type, text |-> message],
            !.admin.timers = @ + 1]

\* displayFiles(files): one table row per file, or the 'no files' row
displayFiles(P, files) ==
  [P EXCEPT !.admin.files =
     Some([i \in 1..Len(files) |->
             [id |-> files[i].id, file_name |-> files[i].file_name,
              status |-> files[i].status]])]

----------------------------------------------------------------------------
(* Operations and handlers as runs: from the call, or from the settling of *)
(* the awaited promise, to the next external await or to the end.  A run   *)
(* maps the program state P and the invocation t to both afterwards.       *)

RECURSIVE Finish(_, _, _), CallOp(_, _, _, _)

\* a Gateway operation in which deleteFile asks confirm() but goes on whatever
\* the answer is
CallOpUnconfirmed(P, t0, op, arg) ==
  LET t == [t0 EXCEPT !.op = op, !.oparg = arg, !.lookup = "none"]
      asked == IF op = "deleteFile"
               THEN [t EXCEPT !.log = Append(@, "confirm")] ELSE t
      tl == [asked EXCEPT !.log = Append(@, "getAuthToken")]
      c == initSupabase(P)
  IN  IF c.out.st = "threw"
      THEN Finish(c.P, [tl EXCEPT !.lookup = "threw"], getAuthHeaders(c.out))
      ELSE IF c.out.val[1] = 0
      THEN Finish(c.P, [tl EXCEPT !.lookup = "notoken"],
                  getAuthHeaders(Returned(None)))
      ELSE [P |-> c.P, t |-> Await(tl, "getSession")]

\* a Gateway operation from its call to its first external await:
\* deleteFile asks confirm() first (auth.js:207); every operation then runs
\* getAuthHeaders() -> getAuthToken() -> initSupabase() (auth.js:130-131,
\* 82-84), which ends the operation at once when there is no client
CallOp(P, t0, op, arg) ==
  LET t == [t0 EXCEPT !.op = op, !.oparg = arg, !.lookup = "none"]
      asked == IF op = "deleteFile"
               THEN [t EXCEPT !.log = Append(@, "confirm")] ELSE t
      tl == [asked EXCEPT !.log = Append(@, "getAuthToken")]
      c == initSupabase(P)
  IN  IF op = "deleteFile" /\ ~t.confirm THEN Finish(P, asked, ReturnedVoid)
      ELSE IF c.out.st = "threw"
      THEN Finish(c.P, [tl EXCEPT !.lookup = "threw"], getAuthHeaders(c.out))
      ELSE IF c.out.val[1] = 0
      THEN Finish(c.P, [tl EXCEPT !.lookup = "notoken"],
                  getAuthHeaders(Returned(None)))
      ELSE [P |-> c.P, t |-> Await(tl, "getSession")]

\* loadFiles() up to its first external await (auth.js:303-307)
loadFilesCall(P, t) ==
  CallOp(P, [t EXCEPT !.stage = "loadFiles"], "getFiles",
         IF P.admin.statusFilter = "" THEN None
         ELSE Some(P.admin.statusFilter))

\* loadFiles() that only logs the failure of getFiles
loadFilesAfterSilent(P, oc) ==
  IF oc.st = "returned" THEN displayFiles(P, oc.val[1].files) ELSE P

\* loadFiles() after getFiles settled (auth.js:307-311)
loadFilesAfter(P, oc) ==
  IF oc.st = "returned" THEN displayFiles(P, oc.val[1].files)
  ELSE showAlert(P, OrElse(oc.msg, MsgListFailed), "error")

\* what loadFiles() renders after getFiles settled (auth.js:309-310)
loadFilesShown(t, oc) ==
  IF oc.st = "returned" THEN t
  ELSE Shown(t, "error", OrElse(oc.msg, MsgListFailed))

\* a chat submit handler that enables the controls again only after an answer
chatSubmitAfterNoFinally(P, oc) ==
  IF oc.st = "returned"
  THEN [displaySources(displayMessage(P, oc.val[1].answer, FALSE),
                       oc.val[1].sources)
          EXCEPT !.chat.inputDisabled = FALSE,
                 !.chat.submitDisabled = FALSE,
                 !.chat.submitLabel = LabelSend]
  ELSE displayError(P, OrElse(oc.msg, MsgSendFailed))

\* chat submit handler after sendMessage settled (part_001:143-160)
chatSubmitAfter(P, oc) ==
  LET shown == IF oc.st = "returned"
               THEN displaySources(displayMessage(P, oc.val[1].answer, FALSE),
                                   oc.val[1].sources)
               ELSE displayError(P, OrElse(oc.msg, MsgSendFailed))
  IN  [shown EXCEPT !.chat.inputDisabled = FALSE,
                    !.chat.submitDisabled = FALSE,
                    !.chat.submitLabel = LabelSend]

\* finally of the change and drop handlers (auth.js:365-368, 397-400)
uploadFinally(P) ==
  [P EXCEPT !.admin.uploadDisabled = FALSE, !.admin.uploadLabel = LabelUpload]

\* what follows the settling of a Gateway operation in invocation t
Finish(P, t, oc) ==
  CASE t.kind \in GatewayOps -> [P |-> P, t |-> Done(t, oc)]
    [] t.kind = "chatSubmit" ->
         [P |-> chatSubmitAfter(P, oc),
          t |-> Done(IF oc.st = "returned" THEN t
                     ELSE Shown(t, "error", OrElse(oc.msg, MsgSendFailed)),
                     ReturnedVoid)]
    [] t.kind = "loadFiles" ->
         [P |-> loadFilesAfter(P, oc),
          t |-> Done(loadFilesShown(t, oc), ReturnedVoid)]
    [] t.kind \in {"change", "drop"} /\ t.stage = "upload" ->
         \* auth.js:359-364, 392-396
         IF oc.st = "returned"
         THEN loadFilesCall(showAlert(P, MsgUploaded, "success"),
                            Shown(t, "success", MsgUploaded))
         ELSE [P |-> uploadFinally(
                       showAlert(P, OrElse(oc.msg, MsgUploadFailed), "error")),
               t |-> Done(Shown(t, "error", OrElse(oc.msg, MsgUploadFailed)),
                          ReturnedVoid)]
    [] t.kind \in {"change", "drop"} /\ t.stage = "loadFiles" ->
         \* auth.js:361-362: the change handler also clears the file input
         LET P1 == loadFilesAfter(P, oc)
             P2 == IF t.kind = "change"
                   THEN [P1 EXCEPT !.admin.fileInput = None] ELSE P1
         IN  [P |-> uploadFinally(P2),
              t |-> Done(loadFilesShown(t, oc), ReturnedVoid)]
    [] t.kind = "handleDeleteFile" /\ t.stage = "delete" ->
         \* auth.js:292-297
         IF oc.st = "returned" THEN loadFilesCall(P, t)
         ELSE [P |-> showAlert(P, OrElse(oc.msg, MsgDeleteFailed), "error"),
               t |-> Done(Shown(t, "error", OrElse(oc.msg, MsgDeleteFailed)),
                          ReturnedVoid)]
    [] OTHER ->
         \* handleDeleteFile after loadFiles: auth.js:293-294
         [P |-> showAlert(loadFilesAfter(P, oc), MsgDeleted, "success"),
          t |-> Done(Shown(loadFilesShown(t, oc), "success", MsgDeleted),
                     ReturnedVoid)]

\* a Gateway operation that builds its header from the first token of the
\* page instead of the one the session query has just given
SessionSettledFirstToken(P, t, q) ==
  LET tk == getAuthToken(q)
      h == getAuthHeaders(IF tk.st = "returned" /\ tk.val[1] # None
                          THEN Returned(Some(AccessToken(1))) ELSE tk)
      t1 == [t EXCEPT !.lookup = IF tk.st = "threw" THEN "threw"
                                 ELSE IF tk.val[1] = None THEN "notoken"
                                 ELSE "token"]
  IN  IF h.st = "threw" THEN Finish(P, t1, h)
      ELSE [P |-> P,
            t |-> Await([t1 EXCEPT !.reqs =
                           Append(@, RequestOf(t.op, t.oparg, h.val[1]))],
                        "fetch")]

\* a Gateway operation after client.auth.getSession() settled: the rest of
\* getAuthToken and getAuthHeaders, then the call of fetch
SessionSettled(P, t, q) ==
  LET tk == getAuthToken(q)
      h == getAuthHeaders(tk)
      t1 == [t EXCEPT !.lookup = IF tk.st = "threw" THEN "threw"
                                 ELSE IF tk.val[1] = None THEN "notoken"
                                 ELSE "token"]
  IN  IF h.st = "threw" THEN Finish(P, t1, h)
      ELSE [P |-> P,
            t |-> Await([t1 EXCEPT !.reqs =
                           Append(@, RequestOf(t.op, t.oparg, h.val[1]))],
                        "fetch")]

\* a Gateway operation that sends its request once more when fetch fails
FetchSettledRetrying(P, t, r) ==
  IF r.net = "failed" /\ Len(t.reqs) < 2
  THEN [P |-> P,
        t |-> Await([t EXCEPT !.reqs = Append(@, t.reqs[Len(t.reqs)])],
                    "fetch")]
  ELSE Finish(P, [t EXCEPT !.resp = Some(r)], ResultOf(t.op, r))

\* a Gateway operation after fetch settled
FetchSettled(P, t, r) ==
  Finish(P, [t EXCEPT !.resp = Some(r)], ResultOf(t.op, r))

\* getCurrentUser() up to its first external await (auth.js:33-36), and what
\* its caller does with what it returns
FinishUser(P, t, u) ==
  CASE t.kind = "requireAuth" ->
         LET r == requireAuth(P, checkAuth(u))
         IN  [P |-> r.P, t |-> Done(t, r.out)]
    [] t.kind = "isAdmin" -> [P |-> P, t |-> Done(t, isAdmin(u))]
    [] OTHER -> [P |-> P, t |-> Done(t, u)]

getCurrentUserCall(P, t) ==
  LET c == initSupabase(P)
  IN  IF c.out.st = "threw"
      THEN FinishUser(c.P, [t EXCEPT !.lookup = "threw"], c.out)
      ELSE IF c.out.val[1] = 0
      THEN FinishUser(c.P, [t EXCEPT !.lookup = "nouser"], Returned(None))
      ELSE [P |-> c.P, t |-> Await(t, "getUser")]

\* login() up to its first external await (auth.js:48-53)
loginCall(P, t) ==
  LET c == initSupabase(P)
  IN  IF c.out.st = "threw" THEN [P |-> c.P, t |-> Done(t, c.out)]
      ELSE IF c.out.val[1] = 0
      THEN [P |-> c.P, t |-> Done(t, Threw(MsgClientNotInitialized))]
      ELSE [P |-> c.P, t |-> Await(t, "signIn")]

\* logout() up to its first external await (auth.js:69-72)
logoutCall(P, t) ==
  LET c == initSupabase(P)
  IN  IF c.out.st = "threw" THEN [P |-> c.P, t |-> Done(t, c.out)]
      ELSE IF c.out.val[1] = 0 THEN [P |-> c.P, t |-> Done(t, ReturnedVoid)]
      ELSE [P |-> c.P, t |-> Await(t, "signOut")]

\* getAuthToken() up to its first external await (auth.js:83-86)
getAuthTokenCall(P, t) ==
  LET c == initSupabase(P)
  IN  IF c.out.st = "threw" THEN [P |-> c.P, t |-> Done(t, c.out)]
      ELSE IF c.out.val[1] = 0 THEN [P |-> c.P, t |-> Done(t, Returned(None))]
      ELSE [P |-> c.P, t |-> Await(t, "getSession")]

\* a submit handler that returns early only when nothing at all was typed
chatSubmitCallBlankSent(P, t) ==
  LET message == Trim(t.arg)
      P1 == displayMessage(P, message, TRUE)
      P2 == [P1 EXCEPT !.chat.inputDisabled = TRUE,
                       !.chat.submitDisabled = TRUE,
                       !.chat.submitLabel = LabelSending]
  IN  IF t.arg = EmptyString THEN [P |-> P, t |-> Done(t, ReturnedVoid)]
      ELSE CallOp(P2, [t EXCEPT !.log = Append(@, "displayMessage")],
                  "sendMessage", message)

\* a submit handler that checks the trimmed value but sends the raw one
chatSubmitCallUntrimmed(P, t) ==
  LET P1 == displayMessage(P, Trim(t.arg), TRUE)
      P2 == [P1 EXCEPT !.chat.inputDisabled = TRUE,
                       !.chat.submitDisabled = TRUE,
                       !.chat.submitLabel = LabelSending]
  IN  IF Trim(t.arg) = EmptyString THEN [P |-> P, t |-> Done(t, ReturnedVoid)]
      ELSE CallOp(P2, [t EXCEPT !.log = Append(@, "displayMessage")],
                  "sendMessage", t.arg)

\* the chat form's submit handler up to its first external await
\* (part_001:125-143)
chatSubmitCall(P, t) ==
  LET message == Trim(t.arg)
      P1 == displayMessage(P, message, TRUE)
      P2 == [P1 EXCEPT !.chat.inputDisabled = TRUE,
                       !.chat.submitDisabled = TRUE,
                       !.chat.submitLabel = LabelSending]
  IN  IF message = EmptyString THEN [P |-> P, t |-> Done(t, ReturnedVoid)]
      ELSE CallOp(P2, [t EXCEPT !.log = Append(@, "displayMessage")],
                  "sendMessage", message)

\* an upload handler that marks the button before it looks for the file
uploadHandlerCallEager(P, t) ==
  LET P0 == IF t.kind = "drop" THEN [P EXCEPT !.admin.dragover = FALSE]
            ELSE [P EXCEPT !.admin.fileInput = t.arg]
      P1 == [P0 EXCEPT !.admin.uploadDisabled = TRUE,
                       !.admin.uploadLabel = LabelUploading]
  IN  IF t.arg = None THEN [P |-> P1, t |-> Done(t, ReturnedVoid)]
      ELSE CallOp(P1, [t EXCEPT !.stage = "upload"], "uploadFile", t.arg[1])

\* the file input's change handler and the upload area's drop handler up to
\* their first external await (auth.js:351-359, 381-392); t.arg is files[0]
uploadHandlerCall(P, t) ==
  LET P0 == IF t.kind = "drop" THEN [P EXCEPT !.admin.dragover = FALSE]
            ELSE [P EXCEPT !.admin.fileInput = t.arg]
      P1 == [P0 EXCEPT !.admin.uploadDisabled = TRUE,
                       !.admin.uploadLabel = LabelUploading]
  IN  IF t.arg = None THEN [P |-> P0, t |-> Done(t, ReturnedVoid)]
      ELSE CallOp(P1, [t EXCEPT !.stage = "upload"], "uploadFile", t.arg[1])

\* the call of an operation or handler
Begin(P, t) ==
  CASE t.kind \in {"getCurrentUser", "requireAuth", "isAdmin"} ->
         getCurrentUserCall(P, t)
    [] t.kind = "login" -> loginCall(P, t)
    [] t.kind = "logout" -> logoutCall(P, t)
    [] t.kind = "getAuthToken" -> getAuthTokenCall(P, t)
    [] t.kind \in GatewayOps -> CallOp(P, t, t.kind, t.arg)
    [] t.kind = "chatSubmit" -> chatSubmitCall(P, t)
    [] t.kind \in {"change", "drop"} -> uploadHandlerCall(P, t)
    [] t.kind = "handleDeleteFile" ->
         CallOp(P, [t EXCEPT !.stage = "delete"], "deleteFile", t.arg)
    [] t.kind \in {"dragover", "dragleave"} ->
         \* auth.js:372-379
         [P |-> [P EXCEPT !.admin.dragover = (t.kind = "dragover")],
          t |-> Done(t, ReturnedVoid)]
    [] OTHER ->
         \* loadFiles, called by initAdmin or by the status filter's change
         \* event, which has set the filter to t.arg before
         loadFilesCall(IF t.arg = None THEN P
                       ELSE [P EXCEPT !.admin.statusFilter = t.arg[1]], t)

----------------------------------------------------------------------------
(* Inputs *)

\* what the user has typed into the message input when the form is submitted
ChatInputs ==
  {<<>>, <<" ">>, <<" ", " ">>, <<"q">>, <<" ", "q">>, <<"q", " ">>,
   <<" ", "q", " ">>, <<"q", " ", "q">>}

RECURSIVE StringsUpTo(_, _)
StringsUpTo(alphabet, n) ==
  IF n = 0 THEN {<<>>}
  ELSE LET shorter == StringsUpTo(alphabet, n - 1)
       IN  shorter \cup {Append(s, c) : s \in shorter, c \in alphabet}

Account == <<"a">>
FileId == "f1"
FileName == "report.pdf"

Args(kind) ==
  CASE kind = "login" -> {Account}
    [] kind = "sendMessage" -> {<<"q">>}
    [] kind = "getFiles" -> {None, Some("indexed")}
    [] kind = "uploadFile" -> {FileName}
    [] kind \in {"deleteFile", "handleDeleteFile"} -> {FileId}
    [] kind = "chatSubmit" -> ChatInputs
    [] kind \in {"change", "drop"} -> {None, Some(FileName)}
    [] kind = "loadFiles" -> {None, Some(""), Some("indexed")}
    [] OTHER -> {None}

\* the user's answer to confirm(), for the operations that ask
Confirms(kind) ==
  IF kind \in {"deleteFile", "handleDeleteFile"} THEN BOOLEAN ELSE {FALSE}

\* the browser fires no submit event while the form's input and its submit
\* button are disabled (part_001:134-138); every other handler listens on an
\* element that the code never disables
Enabled(kind) ==
  kind = "chatSubmit" => ~chat.inputDisabled \/ ~chat.submitDisabled


----------------------------------------------------------------------------
(* Initial states *)

InitialChat ==
  [messages |-> <<>>, inputDisabled |-> FALSE, submitDisabled |-> FALSE,
   submitLabel |-> LabelSend]

InitialAdmin ==
  [uploadDisabled |-> FALSE, uploadLabel |-> LabelUpload,
   alert |-> [display |-> FALSE, cls |-> "", text |-> ""], timers |-> 0,
   files |-> None, statusFilter |-> "", fileInput |-> None,
   dragover |-> FALSE]

\* a page load: the library may be missing, the configuration incomplete, and
\* the identity library may have restored a session of an earlier page
InitWith(libs, configs, emails) ==
  /\ libLoaded \in libs
  /\ config \in configs
  /\ supabaseClient = 0
  /\ clientsCreated = 0
  /\ session \in {NoSession} \cup
                 {[state |-> "valid", token |-> 1, email |-> e] : e \in emails}
  /\ issued = IF session = NoSession THEN 0 ELSE 1
  /\ authLast = "init"
  /\ tasks = EmptyBag
  /\ finished = NoTask
  /\ calls = 0
  /\ location = "/"
  /\ chat = InitialChat
  /\ admin = InitialAdmin

Configured == [url |-> TRUE, key |-> TRUE, adminEmails |-> Some(<<"a">>)]

Init ==
  InitWith(BOOLEAN,
           {Configured, [Configured EXCEPT !.url = FALSE],
            [Configured EXCEPT !.key = FALSE]},
           {Some(Account)})

----------------------------------------------------------------------------
(* Actions *)

Env == <<libLoaded, config>>

Running == BagToSet(tasks)

\* the session history after an event, once a login() has succeeded
Since(event) == IF authLast = "init" THEN "init" ELSE event

\* how many invocations a run may start before an operation of this kind
CallLimit(kind) ==
  IF kind \in {"getCurrentUser", "getAuthToken", "requireAuth"}
  THEN MaxSessionCalls ELSE MaxCalls

\* invocation old goes on as t, or has ended as t
Continue(old, t) ==
  LET rest == tasks (-) SetToBag({old})
  IN  IF t.pc = "done"
      THEN tasks' = rest /\ finished' = t
      ELSE tasks' = rest (+) SetToBag({t}) /\ finished' = NoTask

\* an operation or handler is called
Call(kind) ==
    \E arg \in Args(kind), cf \in Confirms(kind) :
      /\ calls < CallLimit(kind)
      /\ BagCardinality(tasks) < MaxTasks
      /\ Enabled(kind)
      /\ LET r == Begin(Prog, [NewTask(kind, arg) EXCEPT !.confirm = cf,
                                                        !.seen = authLast])
         IN  /\ Continue(NoTask, r.t)
             /\ Apply(r.P)
             /\ authLast' = IF kind = "logout" /\ r.t.pc = "done"
                               /\ r.t.out.st = "returned"
                            THEN Since("logout") ELSE authLast
      /\ calls' = calls + 1
      /\ UNCHANGED <<Env, session, issued>>

GetCurrentUserCalled == Call("getCurrentUser")
LoginCalled == Call("login")
LogoutCalled == Call("logout")
GetAuthTokenCalled == Call("getAuthToken")
RequireAuthCalled == Call("requireAuth")
IsAdminCalled == Call("isAdmin")
SendMessageCalled == Call("sendMessage")
GetFilesCalled == Call("getFiles")
UploadFileCalled == Call("uploadFile")
DeleteFileCalled == Call("deleteFile")
ChatSubmitted == Call("chatSubmit")
FileInputChanged == Call("change")
FileDropped == Call("drop")
DraggedOver == Call("dragover")
DragLeft == Call("dragleave")
HandleDeleteFileCalled == Call("handleDeleteFile")
LoadFilesCalled == Call("loadFiles")

SessionCalled ==
  \/ GetCurrentUserCalled
  \/ LoginCalled
  \/ LogoutCalled
  \/ GetAuthTokenCalled
  \/ RequireAuthCalled

GatewayCalled ==
  \/ SendMessageCalled
  \/ GetFilesCalled
  \/ UploadFileCalled
  \/ DeleteFileCalled

UploadEvent ==
  \/ FileInputChanged
  \/ FileDropped
  \/ DraggedOver
  \/ DragLeft

FilesEvent ==
  \/ HandleDeleteFileCalled
  \/ LoadFilesCalled

\* client.auth.getUser() settles
GetUserSettles ==
  \E t \in Running, q \in GetUserAnswers :
    /\ t.pc = "getUser"
    /\ LET t1 == [t EXCEPT !.lookup = IF q.kind = "rejected" THEN "threw"
                                     ELSE IF q.kind = "error" \/ q.user = None
                                     THEN "nouser" ELSE "user",
                           !.answer = Some(q)]
           r == FinishUser(Prog, t1, getCurrentUser(q))
       IN  Continue(t, r.t) /\ Apply(r.P)
    /\ session' = SessionAfter(q, None)
    /\ issued' = IssuedAfter(q)
    /\ authLast' = IF q.effect = "refresh" THEN Since("refresh") ELSE authLast
    /\ UNCHANGED <<Env, calls>>

\* client.auth.signInWithPassword() settles
SignInSettles ==
  \E t \in Running :
    /\ t.pc = "signIn"
    /\ \E q \in SignInAnswers(t.arg) :
         /\ Continue(t, Done([t EXCEPT !.answer = Some(q)], login(q)))
         /\ session' = SessionAfter(q, t.arg)
         /\ issued' = IssuedAfter(q)
         /\ authLast' = IF q.effect = "signin" THEN "login" ELSE authLast
    /\ UNCHANGED <<Env, supabaseClient, clientsCreated, calls, location,
                   chat, admin>>

\* client.auth.signOut() settles
SignOutSettles ==
  \E t \in Running, q \in SignOutAnswers :
    /\ t.pc = "signOut"
    /\ Continue(t, Done([t EXCEPT !.answer = Some(q)], logout(q)))
    /\ session' = SessionAfter(q, None)
    /\ authLast' = IF logout(q).st = "returned" THEN Since("logout")
                   ELSE IF q.effect = "signout" THEN Since("signout")
                   ELSE authLast
    /\ UNCHANGED <<Env, issued, supabaseClient, clientsCreated, calls,
                   location, chat, admin>>

\* client.auth.getSession() settles, for getAuthToken() called directly or
\* by a Gateway operation
GetSessionSettles ==
  \E t0 \in Running, q \in GetSessionAnswers :
    /\ t0.pc = "getSession"
    /\ LET t == [t0 EXCEPT !.seen = authLast,
                           !.answer = IF t0.kind = "getAuthToken"
                                      THEN Some(q) ELSE @]
           r == IF t.kind = "getAuthToken"
                THEN [P |-> Prog, t |-> Done(t, getAuthToken(q))]
                ELSE SessionSettled(Prog, t, q)
       IN  Continue(t0, r.t) /\ Apply(r.P)
    /\ session' = SessionAfter(q, None)
    /\ issued' = IssuedAfter(q)
    /\ authLast' = IF q.effect = "refresh" THEN Since("refresh") ELSE authLast
    /\ UNCHANGED <<Env, calls>>

\* fetch() settles
FetchSettles ==
  \E t \in Running :
    /\ t.pc = "fetch"
    /\ \E r \in Responses(t.reqs[Len(t.reqs)]) :
         LET n == FetchSettled(Prog, t, r)
         IN  Continue(t, n.t) /\ Apply(n.P)
    /\ UNCHANGED <<Env, session, issued, authLast, calls>>

\* the access token's lifetime ends
SessionExpires ==
  /\ session.state = "valid"
  /\ session' = [session EXCEPT !.state = "expired"]
  /\ authLast' = Since("expire")
  /\ finished' = NoTask
  /\ UNCHANGED <<Env, supabaseClient, clientsCreated, issued, tasks, calls,
                 location, chat, admin>>

\* the identity library's script finishes loading
LibraryLoads ==
  /\ ~libLoaded
  /\ libLoaded' = TRUE
  /\ finished' = NoTask
  /\ UNCHANGED <<config, supabaseClient, clientsCreated, session, issued,
                 authLast, tasks, calls, location, chat, admin>>

\* a timer started by showAlert fires (auth.js:325-327)
AlertTimerFires ==
  /\ admin.timers > 0
  /\ admin' = [admin EXCEPT !.timers = @ - 1, !.alert.display = FALSE]
  /\ finished' = NoTask
  /\ UNCHANGED <<Env, supabaseClient, clientsCreated, session, issued,
                 authLast, tasks, calls, location, chat>>

----------------------------------------------------------------------------
(* Specifications *)

Next ==
  \/ SessionCalled
  \/ IsAdminCalled
  \/ GatewayCalled
  \/ ChatSubmitted
  \/ UploadEvent
  \/ FilesEvent
  \/ GetUserSettles
  \/ SignInSettles
  \/ SignOutSettles
  \/ GetSessionSettles
  \/ FetchSettles
  \/ SessionExpires
  \/ LibraryLoads
  \/ AlertTimerFires

Spec == Init /\ [][Next]_vars

\* the session provider alone
NextSession ==
  \/ SessionCalled
  \/ GetUserSettles
  \/ SignInSettles
  \/ SignOutSettles
  \/ GetSessionSettles
  \/ SessionExpires
  \/ LibraryLoads

SpecSession == Init /\ [][NextSession]_vars

\* isAdmin() for every allow-list and every e-mail address of the user
ListChars == {"a", "A", " ", ","}
EmailChars == {"a", "A", " "}

InitAdminCheck ==
  InitWith(BOOLEAN,
           {[Configured EXCEPT !.adminEmails = l] :
              l \in {None} \cup
                    {Some(s) : s \in StringsUpTo(ListChars, MaxListLen)}},
           {None} \cup {Some(e) : e \in StringsUpTo(EmailChars, MaxListLen - 1)})

NextAdminCheck ==
  \/ IsAdminCalled
  \/ GetUserSettles

SpecAdminCheck == InitAdminCheck /\ [][NextAdminCheck]_vars

\* the Gateway operations, with logins, logouts and expiry in between
InitGateway ==
  InitWith(BOOLEAN, {Configured, [Configured EXCEPT !.url = FALSE]},
           {Some(Account)})

NextGateway ==
  \/ GatewayCalled
  \/ LoginCalled
  \/ LogoutCalled
  \/ GetSessionSettles
  \/ FetchSettles
  \/ SignInSettles
  \/ SignOutSettles
  \/ SessionExpires

SpecGateway == InitGateway /\ [][NextGateway]_vars

\* the chat page
NextChat ==
  \/ ChatSubmitted
  \/ LogoutCalled
  \/ GetSessionSettles
  \/ FetchSettles
  \/ SignOutSettles
  \/ SessionExpires

SpecChat == InitGateway /\ [][NextChat]_vars

\* the admin page: uploads
NextUpload ==
  \/ UploadEvent
  \/ GetSessionSettles
  \/ FetchSettles
  \/ AlertTimerFires

SpecUpload == InitGateway /\ [][NextUpload]_vars

\* the admin page: the file list and deletion
NextFiles ==
  \/ FilesEvent
  \/ DeleteFileCalled
  \/ GetSessionSettles
  \/ FetchSettles
  \/ AlertTimerFires

SpecFiles == InitGateway /\ [][NextFiles]_vars

\* every operation under every absence of a configuration value or of the
\* identity library
InitConfig ==
  InitWith(BOOLEAN,
           [url : BOOLEAN, key : BOOLEAN, adminEmails : {None, Some(<<"a">>)}],
           {Some(Account)})

NextConfig ==
  \/ GetCurrentUserCalled
  \/ GetAuthTokenCalled
  \/ LoginCalled
  \/ IsAdminCalled
  \/ GatewayCalled
  \/ GetUserSettles
  \/ GetSessionSettles
  \/ SignInSettles
  \/ FetchSettles

SpecConfig == InitConfig /\ [][NextConfig]_vars

\* the handlers of both pages
NextHandlers ==
  \/ ChatSubmitted
  \/ FileInputChanged
  \/ FileDropped
  \/ FilesEvent
  \/ GetSessionSettles
  \/ FetchSettles

SpecHandlers == InitGateway /\ [][NextHandlers]_vars

----------------------------------------------------------------------------
(* Properties *)

\* every invocation in progress, and the one that has just ended
Invocations == Running \cup {finished}

\* the fixed message of each Gateway operation
Fallback(op) ==
  CASE op = "sendMessage" -> MsgSendFailed
    [] op = "getFiles" -> MsgListFailed
    [] op = "uploadFile" -> MsgUploadFailed
    [] OTHER -> MsgDeleteFailed

\* t has received a non-2xx response
GotError(t) == t.resp # None /\ t.resp[1].net = "ok" /\ ~t.resp[1].ok

\* t has received a non-2xx response whose body is a JSON object with detail
GotDetail(t) ==
  GotError(t) /\ t.resp[1].json = "object" /\ t.resp[1].hasDetail

\* t has received a 2xx response whose body is a JSON object
GotSuccess(t) ==
  t.resp # None /\ t.resp[1].net = "ok" /\ t.resp[1].ok
  /\ t.resp[1].json = "object"

\* e is one of the pieces of s between its commas and its ends
IsField(s, e) ==
  \E a \in 1..(Len(s) + 1), b \in 0..Len(s) :
    /\ a <= b + 1
    /\ SubSeq(s, a, b) = e
    /\ a = 1 \/ s[a - 1] = ","
    /\ b = Len(s) \/ s[b + 1] = ","
    /\ \A k \in a..b : s[k] # ","

\* m is s without the spaces at its two ends
IsTrimOf(m, s) ==
  \E a \in 1..(Len(s) + 1), b \in 0..Len(s) :
    /\ a <= b + 1
    /\ SubSeq(s, a, b) = m
    /\ \A k \in 1..(a - 1) : s[k] = " "
    /\ \A k \in (b + 1)..Len(s) : s[k] = " "
    /\ m # <<>> => m[1] # " " /\ m[Len(m)] # " "

\* C1: a Gateway operation (deleteFile: once the confirmation is accepted)
\* whose token lookup gives no token, because there is no client, no session,
\* the session query reports an error or the lookup itself fails, ends with
\* an error and has issued no request.
C1_NoTokenNoRequest ==
  \A t \in Invocations :
    (t.kind \in GatewayOps /\ t.lookup \in {"notoken", "threw"}) =>
      t.pc = "done" /\ t.out.st = "threw" /\ t.reqs = <<>>

\* C1 witness: deleteFile, confirmed, ended without a token because the
\* refresh of the expired session failed
C1_Witness ==
  /\ finished.kind = "deleteFile" /\ finished.confirm
  /\ finished.lookup = "notoken" /\ finished.out = Threw(MsgNoToken)
  /\ finished.log = <<"confirm", "getAuthToken", "getSession">>
  /\ session.state = "expired"

\* C2 as stated: for every detail string of a non-2xx JSON body, the error
\* of the Gateway operation carries exactly that detail as its message.
C2_EveryDetailSurfaced ==
  (finished.kind \in GatewayOps /\ GotDetail(finished)) =>
    finished.out = Threw(finished.resp[1].detail)

\* C2 amended: for every non-empty detail string of a non-2xx JSON body, the
\* error of the Gateway operation carries exactly that detail as its message.
C2_NonEmptyDetailSurfaced ==
  (finished.kind \in GatewayOps /\ GotDetail(finished)
     /\ finished.resp[1].detail # "") =>
    finished.out = Threw(finished.resp[1].detail)

\* C2 witness: getFiles has surfaced the detail of a non-2xx response
C2_Witness ==
  /\ finished.kind = "getFiles" /\ GotDetail(finished)
  /\ finished.resp[1].detail = "Quota exceeded"
  /\ finished.out.msg = "Quota exceeded"

\* C3 as stated: on a non-2xx response whose body has no detail field or is
\* not parseable JSON, the Gateway operation fails with its fixed message.
C3_FallbackSurfaced ==
  (finished.kind \in GatewayOps /\ GotError(finished)
     /\ \/ finished.resp[1].json = "unparseable"
        \/ finished.resp[1].json = "object" /\ ~finished.resp[1].hasDetail) =>
    finished.out = Threw(Fallback(finished.kind))

C5_TokenAfterLoginNoneAfterLogout ==
  (finished.kind = "getAuthToken" /\ finished.out.st = "returned") =>
    /\ finished.seen = "login" =>
         /\ finished.out.val[1] # None
         /\ finished.out.val[1][1] # EmptyString
    /\ finished.seen = "logout" => finished.out.val[1] = None

\* C5 witness: getAuthToken() has returned null after login() and logout()
C5_Witness ==
  /\ finished.kind = "getAuthToken" /\ finished.seen = "logout"
  /\ finished.out = Returned(None) /\ supabaseClient # 0

\* C6: deleting a file asks for confirmation before any token lookup and any
\* request, and an invocation whose confirmation is declined never issues a
\* POST /admin/delete.
C6_ConfirmBeforeDelete ==
  \A t \in Invocations :
    t.kind \in {"deleteFile", "handleDeleteFile"} =>
      /\ t.log # <<>> /\ t.log[1] = "confirm"
      /\ ~t.confirm => \A i \in 1..Len(t.reqs) : t.reqs[i].path # "/admin/delete"

\* C6 witness: handleDeleteFile has ended after a declined confirmation and
\* has issued one request, the reload of the file list
C6_Witness ==
  /\ finished.kind = "handleDeleteFile" /\ ~finished.confirm
  /\ Len(finished.reqs) = 1 /\ finished.reqs[1].path = "/admin/files"

\* C7: a change or drop event without a file ends at once: it issues no
\* request, looks up no token, raises no error, shows no alert, starts no
\* timer and leaves the upload button's disabled state and label as they were.
C7_NoFileNoOp ==
  [][(finished'.kind \in {"change", "drop"} /\ finished'.arg = None) =>
       /\ finished'.reqs = <<>> /\ finished'.log = <<>>
       /\ finished'.out = ReturnedVoid
       /\ tasks' = tasks
       /\ admin'.alert = admin.alert /\ admin'.timers = admin.timers
       /\ admin'.uploadDisabled = admin.uploadDisabled
       /\ admin'.uploadLabel = admin.uploadLabel]_vars

\* C7 witness: a drop without a file while an upload is in flight and the
\* button is disabled
C7_Witness ==
  /\ finished.kind = "drop" /\ finished.arg = None
  /\ admin.uploadDisabled /\ admin.uploadLabel = LabelUploading

\* C8: a chat submit that got a token has displayed the user's message first
\* and then issued one request, POST /chat with the JSON body {message: the
\* trimmed input}; after a 2xx JSON response the message list ends with the
\* user's message, the answer and, if and only if the response has a
\* non-empty sources list, a block with every source's file name and its
\* similarity as a percentage.
C8_ChatSubmit ==
  (finished.kind = "chatSubmit" /\ finished.lookup = "token") =>
    LET t == finished
        M == chat.messages
        n == Len(M)
    IN  /\ t.log = <<"displayMessage", "getAuthToken", "getSession", "fetch">>
        /\ Len(t.reqs) = 1
        /\ t.reqs[1].method = "POST" /\ t.reqs[1].path = "/chat"
        /\ t.reqs[1].body.type = "json" /\ t.reqs[1].body.field = "message"
        /\ t.reqs[1].body.value # EmptyString
        /\ IsTrimOf(t.reqs[1].body.value, t.arg)
        /\ GotSuccess(t) =>
             LET d == t.resp[1].data[1]
                 src == IF d.sources = None THEN <<>> ELSE d.sources[1]
                 k == IF src = <<>> THEN n ELSE n - 1
             IN  /\ k >= 2
                 /\ M[k - 1].cls = "user"
                 /\ M[k - 1].text = Some(t.reqs[1].body.value)
                 /\ M[k].cls = "assistant" /\ M[k].text = Some(d.answer)
                 /\ src # <<>> =>
                      /\ M[n].cls = "sources"
                      /\ Len(M[n].items) = Len(src)
                      /\ \A i \in 1..Len(src) :
                           /\ M[n].items[i].file_name = src[i].file_name
                           /\ 10 * M[n].items[i].percent <= src[i].similarity + 5
                           /\ src[i].similarity < 10 * M[n].items[i].percent + 5

\* C8 witness: the input ' q ' was answered with two sources
C8_Witness ==
  /\ finished.kind = "chatSubmit" /\ finished.arg = <<" ", "q", " ">>
  /\ GotSuccess(finished)
  /\ finished.resp[1].data[1].sources = Some(<<Source1, Source2>>)
  /\ Len(chat.messages) = 3

\* C9 as stated: requireAuth() always ends with a boolean: false, with the
\* location set to the login page, when no user is resolvable, true otherwise.
C9_RequireAuthBoolean ==
  finished.kind = "requireAuth" =>
    /\ finished.out.st = "returned"
    /\ IF finished.lookup = "user" THEN finished.out.val[1] = TRUE
       ELSE finished.out.val[1] = FALSE /\ location = LoginPage

\* C10 as stated: getCurrentUser() never throws: it returns the user when the
\* identity backend gives one and null on every failure.
C10_GetCurrentUserNeverThrows ==
  finished.kind = "getCurrentUser" =>
    /\ finished.out.st = "returned"
    /\ IF finished.lookup = "user"
       THEN finished.out.val[1] = Some([email |-> session.email])
       ELSE finished.out.val[1] = None

C12_LoginErrorVerbatim ==
  finished.kind = "login" =>
    /\ (finished.answer # None /\ finished.answer[1].kind = "error") =>
         finished.out = Threw(finished.answer[1].msg)
    /\ finished.out.st = "returned" =>
         /\ finished.answer # None
         /\ finished.answer[1].kind = "ok"
         /\ finished.answer[1].data # None
         /\ finished.out.val = Some(finished.answer[1].data)

\* C12 witness: login() has failed with the backend's message for rejected
\* credentials
C12_Witness ==
  /\ finished.kind = "login"
  /\ finished.answer # None /\ finished.answer[1].kind = "error"
  /\ finished.answer[1].msg = "Invalid login credentials"
  /\ finished.out.msg = "Invalid login credentials"

\* C13 as stated: logout() fails with an error whenever the sign-out call
\* fails and whenever there is no identity client to make it with, and it
\* completes without error only when the remote session was invalidated.
C13_LogoutFailsUnlessInvalidated ==
  finished.kind = "logout" =>
    /\ finished.answer = None => finished.out.st = "threw"
    /\ (finished.answer # None
          /\ finished.answer[1].kind \in {"error", "rejected"}) =>
         finished.out.st = "threw"
    /\ finished.out.st = "returned" =>
         /\ finished.answer # None
         /\ finished.answer[1].kind = "ok"
         /\ finished.answer[1].effect = "signout"

\* C14: over any sequence of Session Provider operations the identity client
\* is created at most once, by the first operation called while the library
\* is loaded and the configuration lets the library create one; from then on
\* the handle is that client and is never reset or replaced.
C14_OneClient ==
  [][/\ clientsCreated' <= 1
     /\ supabaseClient' = clientsCreated'
     /\ supabaseClient # 0 => supabaseClient' = supabaseClient
     /\ clientsCreated' # clientsCreated => libLoaded /\ calls' = calls + 1
     /\ (calls' = calls + 1 /\ libLoaded /\ config.url /\ config.key) =>
          supabaseClient' # 0]_vars

\* C14 witness: the third operation has ended with the client the first one
\* created
C14_Witness ==
  /\ calls = 3 /\ clientsCreated = 1 /\ supabaseClient = 1
  /\ finished.kind = "getAuthToken" /\ finished.log = <<"getSession">>

\* C15: every request issued carries Authorization: Bearer <token> with a
\* token that is a non-empty string; the requests with a JSON body (POST
\* /chat, POST /admin/delete) carry Content-Type: application/json, and the
\* multipart request POST /admin/upload carries no Content-Type.
C15_RequestHeaders ==
  \A t \in Invocations : \A i \in 1..Len(t.reqs) :
    LET r == t.reqs[i]
    IN  /\ Len(r.headers.Authorization) = 2
        /\ r.headers.Authorization[1] = "Bearer"
        /\ \E n \in 1..issued : r.headers.Authorization[2] = AccessToken(n)
        /\ AccessToken(issued) # EmptyString
        /\ r.body.type = "json" <=> r.path \in {"/chat", "/admin/delete"}
        /\ r.body.type = "json" =>
             r.headers.ContentType = Some("application/json")
        /\ r.path = "/admin/upload" =>
             r.body.type = "form" /\ r.headers.ContentType = None

\* C15 witness: uploadFile has issued its request, with Authorization only
C15_Witness ==
  /\ finished.kind = "uploadFile" /\ Len(finished.reqs) = 1
  /\ finished.reqs[1].path = "/admin/upload"
  /\ finished.reqs[1].headers.ContentType = None
  /\ finished.reqs[1].headers.Authorization[1] = "Bearer"

\* C16: whenever a request is issued, the invocation has looked up the token
\* and queried the session for this request, directly before it, and the
\* request carries the token of the session that is valid at that moment:
\* never a token of an earlier call or of a session that a logout, a login
\* or an expiry has invalidated.
C16_HeaderFromOwnQuery ==
  [][\A t \in BagToSet(tasks') \ BagToSet(tasks) :
       t.pc = "fetch" =>
         LET n == Len(t.log)
             r == t.reqs[Len(t.reqs)]
         IN  /\ n >= 3
             /\ SubSeq(t.log, n - 2, n) = <<"getAuthToken", "getSession", "fetch">>
             /\ Cardinality({i \in 1..n : t.log[i] = "getSession"}) = Len(t.reqs)
             /\ session'.state = "valid"
             /\ r.headers.Authorization =
                  <<"Bearer", AccessToken(session'.token)>>]_vars

\* C16 witness: a request issued after a login replaced the session the page
\* was loaded with carries the second token
C16_Witness ==
  \E t \in Running :
    /\ t.kind \in GatewayOps /\ t.pc = "fetch" /\ t.seen = "login"
    /\ t.reqs[1].headers.Authorization = <<"Bearer", AccessToken(2)>>
    /\ session.token = 2

\* C17 as stated: when the identity library, the identity-service URL, the
\* identity-service key or the admin allow-list is absent, getCurrentUser()
\* and getAuthToken() return null, isAdmin() returns false, login() fails with
\* an error and a Gateway operation fails before it issues a request.
C17_AbsenceIsControlled ==
  LET absent == ~libLoaded \/ ~config.url \/ ~config.key
      t == finished
  IN  /\ (t.kind \in {"getCurrentUser", "getAuthToken"} /\ absent) =>
           t.out = Returned(None)
      /\ (t.kind = "isAdmin" /\ (absent \/ config.adminEmails = None)) =>
           t.out = Returned(FALSE)
      /\ (t.kind = "login" /\ absent) => t.out.st = "threw"
      /\ (t.kind \in GatewayOps /\ absent
            /\ (t.kind = "deleteFile" => t.confirm)) =>
           t.out.st = "threw" /\ t.reqs = <<>>

\* the last Gateway operation of invocation t has failed: it got no token,
\* or the backend did not answer its request with a 2xx JSON body
LastOpFailed(t) ==
  \/ t.lookup \in {"notoken", "threw"}
  \/ t.lookup = "token" /\ ~GotSuccess(t)

\* C18 as stated: when a Gateway operation has failed in a workflow (chat
\* send, file list load, upload, delete), then at the end of the workflow the
\* message area shows an error message: the last chat message is an error, or
\* the alert is displayed as an error; no success message is shown in its
\* place.
C18_FailureStaysDisplayed ==
  LET t == finished
  IN  /\ (t.kind = "chatSubmit" /\ LastOpFailed(t)) =>
           /\ chat.messages # <<>>
           /\ chat.messages[Len(chat.messages)].cls = "error"
           /\ chat.messages[Len(chat.messages)].text # Some("")
      /\ (t.kind \in {"loadFiles", "handleDeleteFile", "change", "drop"}
            /\ LastOpFailed(t)) =>
           /\ admin.alert.display
           /\ admin.alert.cls = "error"
           /\ admin.alert.text # ""

\* the handlers that call the Gateway
Handlers == {"chatSubmit", "loadFiles", "handleDeleteFile", "change", "drop"}

Count(s, x) == Cardinality({i \in 1..Len(s) : s[i] = x})

\* C20: an invocation of a Gateway operation issues at most one request, and
\* ends with its error when the request fails; a handler issues at most one
\* request for each operation it calls, none of them twice, and when an
\* operation has failed in it, it has rendered exactly one error message.
C20_NoRetry ==
  \A t \in Invocations :
    /\ t.kind \in GatewayOps =>
         /\ Len(t.reqs) <= 1
         /\ (t.pc = "done" /\ LastOpFailed(t)) =>
              t.out.st = "threw" /\ t.out.msg # ""
    /\ Count(t.log, "fetch") = Len(t.reqs)
    /\ Len(t.reqs) <= Count(t.log, "getAuthToken")
    /\ \A i, j \in 1..Len(t.reqs) : i # j => t.reqs[i].path # t.reqs[j].path
    /\ (t.kind \in Handlers /\ t.pc = "done" /\ LastOpFailed(t)) =>
         Cardinality({i \in 1..Len(t.shown) : t.shown[i].type = "error"}) = 1

\* C20 witness: deleteFile has ended with the error of a network failure
\* after its one request
C20_Witness ==
  /\ finished.kind = "deleteFile" /\ Len(finished.reqs) = 1
  /\ finished.resp = Some(NetworkFailure)
  /\ finished.out = Threw(MsgFailedToFetch)

\* the typed text s is empty or consists of spaces only
IsBlank(s) == \A i \in 1..Len(s) : s[i] = " "

\* C21: a chat submit whose message is empty or consists of white space only
\* ends at once: it looks up no token, issues no request, appends nothing to
\* the message list, and the input and the submit button stay enabled.
C21_BlankSubmitNoOp ==
  [][(finished'.kind = "chatSubmit" /\ IsBlank(finished'.arg)) =>
       /\ finished'.log = <<>> /\ finished'.reqs = <<>>
       /\ finished'.lookup = "none"
       /\ finished'.out = ReturnedVoid
       /\ tasks' = tasks
       /\ chat' = chat
       /\ ~chat'.inputDisabled /\ ~chat'.submitDisabled]_vars

\* C21 witness: a submit of two spaces has ended after an earlier message was
\* answered
C21_Witness ==
  /\ finished.kind = "chatSubmit" /\ finished.arg = <<" ", " ">>
  /\ finished.out = ReturnedVoid
  /\ Len(chat.messages) = 2

\* C22: while a chat submit is in progress, from before its request is issued
\* until the request completes, the message input and the submit button are
\* disabled; when no chat submit is in progress, in particular after the
\* request has completed with an answer or with any error, both are enabled.
C22_ControlsFollowSubmit ==
  LET pending == \E t \in Running : t.kind = "chatSubmit"
  IN  /\ pending =>
           /\ chat.inputDisabled /\ chat.submitDisabled
           /\ chat.submitLabel = LabelSending
      /\ ~pending =>
           /\ ~chat.inputDisabled /\ ~chat.submitDisabled
           /\ chat.submitLabel = LabelSend
      /\ \A t \in Running :
           (t.kind = "chatSubmit" /\ t.reqs # <<>>) => t.pc = "fetch"

\* C22 witness: the request of a chat submit has failed with a network
\* error, and both controls are enabled again
C22_Witness ==
  /\ finished.kind = "chatSubmit" /\ finished.resp = Some(NetworkFailure)
  /\ Len(finished.reqs) = 1
  /\ ~chat.inputDisabled /\ ~chat.submitDisabled
  /\ chat.submitLabel = LabelSend

\* C23 as stated: handleDeleteFile shows the success alert 'file deleted'
\* only if it has issued a POST /admin/delete request for the file; when the
\* confirmation is declined it shows no success alert and issues no request
\* to reload the file list.
C23_DeletedOnlyIfDeleted ==
  \A t \in Invocations :
    t.kind = "handleDeleteFile" =>
      /\ (\E i \in 1..Len(t.shown) :
            t.shown[i] = [type |-> "success", text |-> MsgDeleted]) =>
           /\ t.confirm
           /\ \E j \in 1..Len(t.reqs) :
                /\ t.reqs[j].path = "/admin/delete"
                /\ t.reqs[j].body.value = t.arg
      /\ ~t.confirm => t.shown = <<>> /\ t.reqs = <<>>

\* C24 as stated: in every state in which the upload request of a change or
\* drop handler is in flight, the upload button is disabled and shows the
\* 'uploading' label.
C24_DisabledWhileUploading ==
  (\E t \in Running :
     /\ t.kind \in {"change", "drop"}
     /\ t.op = "uploadFile" /\ t.pc = "fetch") =>
    admin.uploadDisabled /\ admin.uploadLabel = LabelUploading

\* the list that matches the status filter selected
ListForFilter(a) ==
  Some(FilesWithStatus(IF a.statusFilter = "" THEN None
                       ELSE Some(a.statusFilter)))

\* C25 as stated: when loads of the file list overlap, the list displayed
\* once they have completed is the response to the load issued last, the one
\* that matches the status filter selected: a load that completes with a
\* list, with no other load in progress, never replaces a displayed list that
\* matches the filter by one that does not.
C25_ListMatchesFilter ==
  [][(/\ finished'.op = "getFiles" /\ finished'.lookup = "token"
      /\ GotSuccess(finished')
      /\ \A t \in BagToSet(tasks') : t.op # "getFiles"
      /\ admin.files = ListForFilter(admin)) =>
       admin'.files = ListForFilter(admin')]_vars

\* C26 as stated: an alert shown by showAlert stays visible until the timer
\* started by that same call fires, so the timer of an earlier alert never
\* hides a later one.  All timers run for the same delay and fire in the
\* order they were started: while any timer is pending, the timer of the
\* alert shown last is pending, and that alert is displayed.
C26_AlertOutlivesEarlierTimer ==
  admin.timers >= 1 => admin.alert.display

====
